---- MODULE Spec2Model ----
(***************************************************************************)
(* Model of the RosProject launcher scripts:                               *)
(*   run_training.py : load_config, validate_data_paths, main              *)
(*   datacheck.py    : inspect_dataset_annotations                         *)
(*                                                                         *)
(* Strings are sequences of tokens.  A token is either a separator ("/"    *)
(* in a filesystem path, "." in a dotted configuration key) or a name      *)
(* that holds no separator.  The string functions of the code (str.split,  *)
(* os.path.dirname, os.path.basename, os.path.join) are computed on these  *)
(* sequences the way the library computes them on characters.              *)
(***************************************************************************)
EXTENDS Integers, Sequences, FiniteSets, TLC

(***************************************************************************)
(* Bounds of the model.                                                    *)
(***************************************************************************)
MaxDepth == 3       \* segments of a dotted override key (load_config unit)
MaxOverrides == 2   \* entries of an override map (load_config unit)
MaxPathLen == 4     \* tokens of a --train-data-path / --val-data-path value
MaxSamples == 11    \* samples the dataset yields (datacheck)

(***************************************************************************)
(* Python values.  Every value is a record of the same shape so that any   *)
(* two values can be compared: t is the type, s the text of a str, n the   *)
(* number of an int or (in thousandths) of a float.                        *)
(***************************************************************************)
None == [t |-> "none", s |-> <<>>, n |-> 0]
Map == [t |-> "map", s |-> <<>>, n |-> 0]
PyStr(s) == [t |-> "str", s |-> s, n |-> 0]
PyInt(n) == [t |-> "int", s |-> <<>>, n |-> n]
PyFloat(n) == [t |-> "float", s |-> <<>>, n |-> n]

\* Python truth value of an argparse result, as tested by `if args.x:`.
Truthy(v) ==
    CASE v.t = "none" -> FALSE
      [] v.t = "str" -> v.s # <<>>
      [] v.t = "int" -> v.n # 0
      [] v.t = "float" -> v.n # 0
      [] OTHER -> TRUE

(***************************************************************************)
(* Nested mappings.  A configuration is a function from the paths that     *)
(* exist in it (sequences of keys, a key being a string) to the value      *)
(* there; a nested mapping is the value Map and its entries are the paths  *)
(* one key longer.  The root <<>> is the mapping itself and is not stored. *)
(***************************************************************************)
IsPrefix(p, q) == Len(p) <= Len(q) /\ SubSeq(q, 1, Len(p)) = p

IsMapping(cfg, p) == p = <<>> \/ (p \in DOMAIN cfg /\ cfg[p] = Map)

\* current[k] = v, where `current` is the mapping at path p: the entry is
\* replaced whole, whatever was nested below it is gone.
SetItem(cfg, p, k, v) ==
    LET q == Append(p, k)
        dom == {r \in DOMAIN cfg : ~IsPrefix(q, r)} \cup {q}
    IN [r \in dom |-> IF r = q THEN v ELSE cfg[r]]

\* '.' in key
HasDot(key) == \E i \in 1..Len(key) : key[i] = "."

\* key.split('.')
RECURSIVE SplitFrom(_, _, _, _)
SplitFrom(key, i, cur, acc) ==
    IF i > Len(key) THEN Append(acc, cur)
    ELSE IF key[i] = "." THEN SplitFrom(key, i + 1, <<>>, Append(acc, cur))
    ELSE SplitFrom(key, i + 1, Append(cur, key[i]), acc)

Split(key) == SplitFrom(key, 1, <<>>, <<>>)

\* An exception left the function: there is no configuration.
Raised == [ok |-> FALSE, cfg |-> << >>]

\* Descend without `if k not in current: current[k] = {}`: KeyError.
RECURSIVE Descend_NoCreate(_, _, _, _, _)
Descend_NoCreate(cfg, keys, i, cur, value) ==
    IF ~IsMapping(cfg, cur) THEN Raised
    ELSE IF i = Len(keys) THEN [ok |-> TRUE, cfg |-> SetItem(cfg, cur, keys[i], value)]
    ELSE IF Append(cur, keys[i]) \notin DOMAIN cfg THEN Raised
    ELSE Descend_NoCreate(cfg, keys, i + 1, Append(cur, keys[i]), value)

\* The loop over keys[:-1] and the assignment of the leaf.  `cur` is the
\* path of `current`.  Membership test, item read and item assignment on a
\* value that is no mapping raise TypeError.
RECURSIVE Descend(_, _, _, _, _)
Descend(cfg, keys, i, cur, value) ==
    IF ~IsMapping(cfg, cur) THEN Raised
    ELSE IF i = Len(keys) THEN [ok |-> TRUE, cfg |-> SetItem(cfg, cur, keys[i], value)]
    ELSE LET next == Append(cur, keys[i])
             made == IF next \in DOMAIN cfg THEN cfg ELSE SetItem(cfg, cur, keys[i], Map)
         IN Descend(made, keys, i + 1, next, value)

\* One iteration of `for key, value in overrides.items()`.
ApplyOverride(cfg, key, value) ==
    IF value = None THEN [ok |-> TRUE, cfg |-> cfg]
    ELSE IF HasDot(key) THEN Descend(cfg, Split(key), 1, <<>>, value)
    ELSE [ok |-> TRUE, cfg |-> SetItem(cfg, <<>>, key, value)]

RECURSIVE ApplyOverrides(_, _, _)
ApplyOverrides(cfg, ovr, i) ==
    IF i > Len(ovr) THEN [ok |-> TRUE, cfg |-> cfg]
    ELSE LET r == ApplyOverride(cfg, ovr[i].key, ovr[i].value)
         IN IF r.ok THEN ApplyOverrides(r.cfg, ovr, i + 1) ELSE r

\* load_config(config_file, **overrides).  file.found is whether open()
\* succeeds, file.doc what yaml.load returns.  The overrides are applied in
\* the dict's order.  EasyDict(config) keeps keys and values as they are and
\* adds attribute access.  ok = FALSE: an exception left the function.
load_config(file, ovr) ==
    IF ~file.found THEN Raised
    ELSE ApplyOverrides(file.doc, ovr, 1)

(***************************************************************************)
(* os.path (posixpath) on token sequences.                                 *)
(***************************************************************************)
\* p.rfind('/') + 1
RECURSIVE RFindSep(_, _)
RFindSep(p, i) == IF i = 0 \/ p[i] = "/" THEN i ELSE RFindSep(p, i - 1)

\* head.rstrip('/')
RECURSIVE RStrip(_)
RStrip(p) == IF p # <<>> /\ p[Len(p)] = "/" THEN RStrip(SubSeq(p, 1, Len(p) - 1)) ELSE p

AllSeps(p) == \A i \in 1..Len(p) : p[i] = "/"

dirname(p) ==
    LET head == SubSeq(p, 1, RFindSep(p, Len(p)))
    IN IF head # <<>> /\ ~AllSeps(head) THEN RStrip(head) ELSE head

basename(p) == SubSeq(p, RFindSep(p, Len(p)) + 1, Len(p))

\* os.path.join(a, b)
join(a, b) ==
    IF b # <<>> /\ b[1] = "/" THEN b
    ELSE IF a = <<>> \/ a[Len(a)] = "/" THEN a \o b
    ELSE a \o <<"/">> \o b

(***************************************************************************)
(* validate_data_paths(config).  exists is os.path.exists on the paths     *)
(* the function builds.  The result records what the call did: ret the     *)
(* value returned, raised whether an exception left it, checked the paths  *)
(* handed to os.path.exists in order, warnings the paths a WARNING line    *)
(* was printed for, in order.                                              *)
(***************************************************************************)
DataRootKey == <<"system", ".", "data_root">>
TrainNameKey == <<"train", ".", "dataset_zip_file_name_training">>
ValNameKey == <<"val", ".", "dataset_zip_file_name_validation">>
LogDirKey == <<"system", ".", "log_dir_system">>
EpochsKey == <<"train", ".", "epochs">>
BatchKey == <<"train", ".", "batch_training_size">>
LrKey == <<"adam_optimizer", ".", "lr">>

\* config.a.b is readable (attribute access on the EasyDict)
HasAttr(cfg, key) == Split(key) \in DOMAIN cfg

GetAttr(cfg, key) == cfg[Split(key)]

\* config.a.b is readable, and a str
HasStr(cfg, key) == HasAttr(cfg, key) /\ GetAttr(cfg, key).t = "str"

DataPaths(cfg) ==
    LET data_root == GetAttr(cfg, DataRootKey).s
    IN [root |-> data_root,
        train |-> join(data_root, GetAttr(cfg, TrainNameKey).s),
        val |-> join(data_root, GetAttr(cfg, ValNameKey).s)]

\* validate_data_paths without its early returns: every path is checked and
\* every missing one reported.
validate_data_paths_all(cfg, exists) ==
    IF ~(HasStr(cfg, DataRootKey) /\ HasStr(cfg, TrainNameKey) /\ HasStr(cfg, ValNameKey))
    THEN [ret |-> FALSE, raised |-> TRUE, checked |-> <<>>, warnings |-> <<>>]
    ELSE LET p == DataPaths(cfg)
             all == <<p.root, p.train, p.val>>
         IN [ret |-> \A i \in 1..3 : exists[all[i]], raised |-> FALSE, checked |-> all,
             warnings |-> SelectSeq(all, LAMBDA x : ~exists[x])]

\* validate_data_paths without its third check.
validate_data_paths_two(cfg, exists) ==
    IF ~(HasStr(cfg, DataRootKey) /\ HasStr(cfg, TrainNameKey) /\ HasStr(cfg, ValNameKey))
    THEN [ret |-> FALSE, raised |-> TRUE, checked |-> <<>>, warnings |-> <<>>]
    ELSE LET p == DataPaths(cfg)
         IN IF ~exists[p.root]
            THEN [ret |-> FALSE, raised |-> FALSE, checked |-> <<p.root>>,
                  warnings |-> <<p.root>>]
            ELSE IF ~exists[p.train]
            THEN [ret |-> FALSE, raised |-> FALSE, checked |-> <<p.root, p.train>>,
                  warnings |-> <<p.train>>]
            ELSE [ret |-> TRUE, raised |-> FALSE, checked |-> <<p.root, p.train>>,
                  warnings |-> <<>>]

validate_data_paths(cfg, exists) ==
    IF ~(HasStr(cfg, DataRootKey) /\ HasStr(cfg, TrainNameKey) /\ HasStr(cfg, ValNameKey))
    THEN [ret |-> FALSE, raised |-> TRUE, checked |-> <<>>, warnings |-> <<>>]
    ELSE LET p == DataPaths(cfg)
         IN IF ~exists[p.root]
            THEN [ret |-> FALSE, raised |-> FALSE, checked |-> <<p.root>>,
                  warnings |-> <<p.root>>]
            ELSE IF ~exists[p.train]
            THEN [ret |-> FALSE, raised |-> FALSE, checked |-> <<p.root, p.train>>,
                  warnings |-> <<p.train>>]
            ELSE IF ~exists[p.val]
            THEN [ret |-> FALSE, raised |-> FALSE, checked |-> <<p.root, p.train, p.val>>,
                  warnings |-> <<p.val>>]
            ELSE [ret |-> TRUE, raised |-> FALSE, checked |-> <<p.root, p.train, p.val>>,
                  warnings |-> <<>>]

(***************************************************************************)
(* State.                                                                  *)
(*   pc          where the running program is                              *)
(*   args        the parsed command line (main)                            *)
(*   file        the configuration file: found, and the document in it     *)
(*   overrides   the override dict, in insertion order                     *)
(*   config      what load_config returned (ok, cfg), then as main         *)
(*               mutates it                                                *)
(*   exists      os.path.exists on the paths validate_data_paths builds    *)
(*   vres        what the call of validate_data_paths did                  *)
(*   log         the calls made on the Estimator and the reports printed   *)
(*   exit_code   the process's exit status, -1 while it runs               *)
(*   orientations, report   datacheck: the samples collected, the report   *)
(***************************************************************************)
VARIABLES pc, args, file, overrides, config, exists, vres, log, exit_code,
          orientations, report

vars == <<pc, args, file, overrides, config, exists, vres, log, exit_code,
          orientations, report>>

NoArgs == [data_root |-> None, train_data_name |-> None, val_data_name |-> None,
           train_data_path |-> None, val_data_path |-> None, log_dir |-> None,
           epochs |-> None, batch_size |-> None, learning_rate |-> None,
           check_data_only |-> FALSE, force |-> FALSE]
NoFile == [found |-> FALSE, doc |-> << >>]
NoConfig == [ok |-> FALSE, cfg |-> << >>]
NoResult == [ret |-> FALSE, raised |-> FALSE, checked |-> <<>>, warnings |-> <<>>]
NoReport == [error |-> FALSE, analysed |-> FALSE, unique |-> <<>>, class |-> "none",
             stats |-> <<>>]

\* All sequences over S of length lo..hi
SeqsOf(S, lo, hi) == UNION {[1..n -> S] : n \in lo..hi}

(***************************************************************************)
(* load_config called on its own: any document of UnitDocs, any override   *)
(* dict of at most MaxOverrides entries whose keys are dotted paths of at  *)
(* most MaxDepth segments.  An entry keeps the segments its key was        *)
(* written from (segs); load_config reads key and value only.              *)
(***************************************************************************)
Segs == {"a", "b"}

\* '.'.join(segs)
RECURSIVE JoinDots(_)
JoinDots(segs) ==
    IF Len(segs) <= 1 THEN segs
    ELSE <<segs[1], ".">> \o JoinDots(Tail(segs))

UnitPaths == SeqsOf(Segs, 1, MaxDepth)
UnitValues == {None, PyInt(1)}

\* {}, {a: 7}, {a: {}}, {a: {b: 7}}, {a: {b: 7}, b: 7}, {a: {b: {a: 7}}}
UnitDocs ==
    { << >>,
      (<< <<"a">> >> :> PyInt(7)),
      (<< <<"a">> >> :> Map),
      (<< <<"a">> >> :> Map) @@ (<< <<"a">>, <<"b">> >> :> PyInt(7)),
      (<< <<"a">> >> :> Map) @@ (<< <<"a">>, <<"b">> >> :> PyInt(7))
          @@ (<< <<"b">> >> :> PyInt(7)),
      (<< <<"a">> >> :> Map) @@ (<< <<"a">>, <<"b">> >> :> Map)
          @@ (<< <<"a">>, <<"b">>, <<"a">> >> :> PyInt(7)) }

\* A dict holds a key once.
UnitOverrides ==
    {o \in SeqsOf({[key |-> JoinDots(segs), segs |-> segs, value |-> v] :
                        segs \in UnitPaths, v \in UnitValues}, 0, MaxOverrides) :
        \A i, j \in 1..Len(o) : i # j => o[i].key # o[j].key}

InitLoad ==
    /\ pc = "load_call"
    /\ file \in [found : {TRUE}, doc : UnitDocs] \cup {NoFile}
    /\ overrides \in UnitOverrides
    /\ args = NoArgs
    /\ config = NoConfig
    /\ exists = << >>
    /\ vres = NoResult
    /\ log = <<>>
    /\ exit_code = -1
    /\ orientations = <<>>
    /\ report = NoReport

LoadCall ==
    /\ pc = "load_call"
    /\ config' = load_config(file, overrides)
    /\ pc' = "load_return"
    /\ UNCHANGED <<args, file, overrides, exists, vres, log, exit_code, orientations, report>>

NextLoad == LoadCall

SpecLoad == InitLoad /\ [][NextLoad]_vars

(***************************************************************************)
(* validate_data_paths called on its own: a configuration holding any      *)
(* data root and folder names of UnitRoots and UnitNames, and any          *)
(* filesystem.                                                             *)
(***************************************************************************)
UnitRoots == {<<>>, <<"/">>, <<"d">>, <<"/", "d">>, <<"d", "/">>}
UnitNames == {<<>>, <<"T">>, <<"V">>, <<"/", "T">>}

PathsConfig(root, train, val) ==
    (<< <<"system">> >> :> Map) @@ (Split(DataRootKey) :> PyStr(root))
    @@ (<< <<"train">> >> :> Map) @@ (Split(TrainNameKey) :> PyStr(train))
    @@ (<< <<"val">> >> :> Map) @@ (Split(ValNameKey) :> PyStr(val))

\* q names a directory on the way to p: q/... or q itself written with a
\* trailing separator.
Ancestor(q, p) ==
    /\ q # <<>> /\ q # p /\ IsPrefix(q, p)
    /\ (p[Len(q) + 1] = "/" \/ q[Len(q)] = "/")

\* What os.path.exists can answer on one filesystem: '' never exists, the
\* root directory always does, and a path exists only under directories
\* that exist.
RealFs(e) ==
    /\ \A p \in DOMAIN e : p = <<>> => ~e[p]
    /\ \A p \in DOMAIN e : (p # <<>> /\ AllSeps(p)) => e[p]
    /\ \A p, q \in DOMAIN e : (Ancestor(q, p) /\ e[p]) => e[q]

\* The filesystems that differ on the paths the call can look at.
Filesystems(cfg) ==
    IF HasStr(cfg, DataRootKey) /\ HasStr(cfg, TrainNameKey) /\ HasStr(cfg, ValNameKey)
    THEN LET p == DataPaths(cfg) IN {e \in [{p.root, p.train, p.val} -> BOOLEAN] : RealFs(e)}
    ELSE {<< >>}

InitValidate ==
    /\ pc = "validate_call"
    /\ \E root \in UnitRoots, train \in UnitNames, val \in UnitNames :
          config = [ok |-> TRUE, cfg |-> PathsConfig(root, train, val)]
    /\ exists \in Filesystems(config.cfg)
    /\ file = NoFile
    /\ overrides = <<>>
    /\ args = NoArgs
    /\ vres = NoResult
    /\ log = <<>>
    /\ exit_code = -1
    /\ orientations = <<>>
    /\ report = NoReport

ValidateCall ==
    /\ pc = "validate_call"
    /\ vres' = validate_data_paths(config.cfg, exists)
    /\ pc' = "validate_return"
    /\ UNCHANGED <<args, file, overrides, config, exists, log, exit_code, orientations, report>>

NextValidate == ValidateCall

SpecValidate == InitValidate /\ [][NextValidate]_vars
(***************************************************************************)
(* main() of run_training.py.                                              *)
(***************************************************************************)
\* overrides = {} ... overrides[key] = args.x  (one `if args.x:` block)
Override(value, key) ==
    IF Truthy(value) THEN << [key |-> key, value |-> value] >> ELSE <<>>

\* The seven blocks, in the order of the code: the dict keeps that order.
build_overrides(a) ==
    Override(a.data_root, DataRootKey)
    \o Override(a.train_data_name, TrainNameKey)
    \o Override(a.val_data_name, ValNameKey)
    \o Override(a.log_dir, LogDirKey)
    \o Override(a.epochs, EpochsKey)
    \o Override(a.batch_size, BatchKey)
    \o Override(a.learning_rate, LrKey)

\* config.a.b = v on the EasyDict: config.a must be there (AttributeError
\* otherwise) and be a mapping.
SetAttr(r, key, v) ==
    LET keys == Split(key)
        parent == SubSeq(keys, 1, Len(keys) - 1)
    IN IF ~r.ok THEN r
       ELSE IF ~IsMapping(r.cfg, parent) THEN Raised
       ELSE [ok |-> TRUE, cfg |-> SetItem(r.cfg, parent, keys[Len(keys)], v)]

\* if args.train_data_path: ...
train_data_path_block(r, a) ==
    IF Truthy(a.train_data_path)
    THEN LET train_dir == dirname(a.train_data_path.s)
             train_name == basename(a.train_data_path.s)
         IN SetAttr(SetAttr(r, DataRootKey, PyStr(train_dir)), TrainNameKey, PyStr(train_name))
    ELSE r

\* if args.val_data_path: ...
val_data_path_block(r, a) ==
    IF Truthy(a.val_data_path)
    THEN LET val_dir == dirname(a.val_data_path.s)
             val_name == basename(a.val_data_path.s)
             rooted == IF ~Truthy(a.train_data_path)
                       THEN SetAttr(r, DataRootKey, PyStr(val_dir))
                       ELSE r
         IN SetAttr(rooted, ValNameKey, PyStr(val_name))
    ELSE r

direct_paths(r, a) == val_data_path_block(train_data_path_block(r, a), a)

\* The attributes the summary prints; a missing one raises AttributeError.
SummaryKeys == {DataRootKey, TrainNameKey, ValNameKey, LogDirKey, EpochsKey, BatchKey, LrKey}

summary_prints(cfg) == \A k \in SummaryKeys : HasAttr(cfg, k)

\* An exception that nothing catches: the interpreter prints the traceback
\* and the process ends with status 1.
Uncaught ==
    /\ pc' = "exit"
    /\ exit_code' = 1
    /\ log' = Append(log, "traceback")

BuildOverrides ==
    /\ pc = "parse"
    /\ overrides' = build_overrides(args)
    /\ pc' = "load"
    /\ UNCHANGED <<args, file, config, exists, vres, log, exit_code, orientations, report>>

LoadConfig ==
    /\ pc = "load"
    /\ config' = load_config(file, overrides)
    /\ IF config'.ok
       THEN pc' = "direct" /\ UNCHANGED <<log, exit_code>>
       ELSE Uncaught
    /\ UNCHANGED <<args, file, overrides, exists, vres, orientations, report>>

DirectPaths ==
    /\ pc = "direct"
    /\ config' = direct_paths(config, args)
    /\ IF config'.ok
       THEN pc' = "summary" /\ UNCHANGED <<log, exit_code>>
       ELSE Uncaught
    /\ UNCHANGED <<args, file, overrides, exists, vres, orientations, report>>

PrintSummary ==
    /\ pc = "summary"
    /\ IF summary_prints(config.cfg)
       THEN pc' = "validate" /\ UNCHANGED <<log, exit_code>>
       ELSE Uncaught
    /\ UNCHANGED <<args, file, overrides, config, exists, vres, orientations, report>>

\* data_valid = validate_data_paths(config), on whatever filesystem there is
ValidatePaths ==
    /\ pc = "validate"
    /\ \E e \in Filesystems(config.cfg) :
          /\ exists' = e
          /\ vres' = validate_data_paths(config.cfg, e)
    /\ IF vres'.raised
       THEN Uncaught
       ELSE pc' = "decide" /\ UNCHANGED <<log, exit_code>>
    /\ UNCHANGED <<args, file, overrides, config, orientations, report>>

\* Decide with --force tested first: a forced run trains whatever else is set.
Decide_ForceFirst ==
    /\ pc = "decide"
    /\ IF args.force
       THEN /\ pc' = "construct"
            /\ UNCHANGED <<log, exit_code>>
       ELSE IF args.check_data_only
       THEN /\ log' = Append(log, "check_complete")
            /\ exit_code' = (IF vres.ret THEN 0 ELSE 1)
            /\ pc' = "exit"
       ELSE IF ~vres.ret
       THEN /\ log' = Append(log, "validation_failed")
            /\ exit_code' = 1
            /\ pc' = "exit"
       ELSE /\ pc' = "construct"
            /\ UNCHANGED <<log, exit_code>>
    /\ UNCHANGED <<args, file, overrides, config, exists, vres, orientations, report>>

\* Decide without the second test: a failed validation only warns.
Decide_NoAbort ==
    /\ pc = "decide"
    /\ IF args.check_data_only
       THEN /\ log' = Append(log, "check_complete")
            /\ exit_code' = (IF vres.ret THEN 0 ELSE 1)
            /\ pc' = "exit"
       ELSE /\ pc' = "construct"
            /\ UNCHANGED <<log, exit_code>>
    /\ UNCHANGED <<args, file, overrides, config, exists, vres, orientations, report>>

\* if args.check_data_only: sys.exit(0 if data_valid else 1)
\* if not data_valid and not args.force: sys.exit(1)
Decide ==
    /\ pc = "decide"
    /\ IF args.check_data_only
       THEN /\ log' = Append(log, "check_complete")
            /\ exit_code' = (IF vres.ret THEN 0 ELSE 1)
            /\ pc' = "exit"
       ELSE IF ~vres.ret /\ ~args.force
       THEN /\ log' = Append(log, "validation_failed")
            /\ exit_code' = 1
            /\ pc' = "exit"
       ELSE /\ pc' = "construct"
            /\ UNCHANGED <<log, exit_code>>
    /\ UNCHANGED <<args, file, overrides, config, exists, vres, orientations, report>>

\* the import, PoseEstimationEstimator(config=config), estimator.device
ConstructOk ==
    /\ pc = "construct"
    /\ log' = Append(log, "Estimator")
    /\ pc' = "train"
    /\ UNCHANGED <<args, file, overrides, config, exists, vres, exit_code, orientations, report>>

ConstructRaises ==
    /\ pc = "construct"
    /\ pc' = "except"
    /\ UNCHANGED <<args, file, overrides, config, exists, vres, log, exit_code, orientations,
                   report>>

\* estimator.train() is called, and returns or raises
TrainOk ==
    /\ pc = "train"
    /\ log' = log \o <<"train", "train_returned">>
    /\ pc' = "cleanup"
    /\ UNCHANGED <<args, file, overrides, config, exists, vres, exit_code, orientations, report>>

TrainRaises ==
    /\ pc = "train"
    /\ log' = Append(log, "train")
    /\ pc' = "except"
    /\ UNCHANGED <<args, file, overrides, config, exists, vres, exit_code, orientations, report>>

\* estimator.writer.done(), the closing report, and main returns
CleanupOk ==
    /\ pc = "cleanup"
    /\ log' = log \o <<"done", "completed">>
    /\ exit_code' = 0
    /\ pc' = "exit"
    /\ UNCHANGED <<args, file, overrides, config, exists, vres, orientations, report>>

CleanupRaises ==
    /\ pc = "cleanup"
    /\ log' = Append(log, "done")
    /\ pc' = "except"
    /\ UNCHANGED <<args, file, overrides, config, exists, vres, exit_code, orientations, report>>

\* Except without its `raise`: the error is reported and main returns.
Except_Swallow ==
    /\ pc = "except"
    /\ log' = Append(log, "error_report")
    /\ exit_code' = 0
    /\ pc' = "exit"
    /\ UNCHANGED <<args, file, overrides, config, exists, vres, orientations, report>>

\* except Exception as e: print, traceback.print_exc(), raise
Except ==
    /\ pc = "except"
    /\ log' = log \o <<"error_report", "raise", "traceback">>
    /\ exit_code' = 1
    /\ pc' = "exit"
    /\ UNCHANGED <<args, file, overrides, config, exists, vres, orientations, report>>

NextMain ==
    \/ BuildOverrides
    \/ LoadConfig
    \/ DirectPaths
    \/ PrintSummary
    \/ ValidatePaths
    \/ Decide
    \/ ConstructOk
    \/ ConstructRaises
    \/ TrainOk
    \/ TrainRaises
    \/ CleanupOk
    \/ CleanupRaises
    \/ Except

(***************************************************************************)
(* The command lines and configuration files main is run on.               *)
(***************************************************************************)
\* A config.yaml with every key main reads.
DefaultDoc ==
    (<< <<"system">> >> :> Map)
    @@ (Split(DataRootKey) :> PyStr(<<"data">>))
    @@ (Split(LogDirKey) :> PyStr(<<"logs">>))
    @@ (<< <<"train">> >> :> Map)
    @@ (Split(TrainNameKey) :> PyStr(<<"UR3_single_cube_training">>))
    @@ (Split(EpochsKey) :> PyInt(120))
    @@ (Split(BatchKey) :> PyInt(20))
    @@ (<< <<"val">> >> :> Map)
    @@ (Split(ValNameKey) :> PyStr(<<"UR3_single_cube_validation">>))
    @@ (<< <<"adam_optimizer">> >> :> Map)
    @@ (Split(LrKey) :> PyFloat(1))

\* The same without its adam_optimizer section.
NoOptimizerDoc ==
    [p \in {q \in DOMAIN DefaultDoc : q[1] # <<"adam_optimizer">>} |-> DefaultDoc[p]]

MainFiles == {[found |-> TRUE, doc |-> DefaultDoc], [found |-> TRUE, doc |-> NoOptimizerDoc],
              NoFile}

\* Values of an option: not given, given a falsy value, given a truthy one.
StrOptions == {None, PyStr(<<>>), PyStr(<<"x">>)}
RootOptions == {None, PyStr(<<>>), PyStr(<<"/", "x">>)}
IntOptions == {None, PyInt(0), PyInt(5)}
FloatOptions == {None, PyFloat(0), PyFloat(10)}
PathOptions == {None} \cup {PyStr(s) : s \in SeqsOf({"/", "x"}, 0, MaxPathLen)}

InitMainWith(Args, Files) ==
    /\ pc = "parse"
    /\ args \in Args
    /\ file \in Files
    /\ overrides = <<>>
    /\ config = NoConfig
    /\ exists = << >>
    /\ vres = NoResult
    /\ log = <<>>
    /\ exit_code = -1
    /\ orientations = <<>>
    /\ report = NoReport

\* Every combination of the seven override options and the two flags.
OptionArgs ==
    [data_root : RootOptions, train_data_name : StrOptions, val_data_name : StrOptions,
     train_data_path : {None}, val_data_path : {None}, log_dir : StrOptions,
     epochs : IntOptions, batch_size : IntOptions, learning_rate : FloatOptions,
     check_data_only : BOOLEAN, force : BOOLEAN]

\* Every combination of the five path options and the two flags.
PathArgs ==
    [data_root : {None, PyStr(<<"/", "x">>)}, train_data_name : {None, PyStr(<<"x">>)},
     val_data_name : {None, PyStr(<<"x">>)},
     train_data_path : PathOptions, val_data_path : PathOptions, log_dir : {None},
     epochs : {None}, batch_size : {None}, learning_rate : {None},
     check_data_only : BOOLEAN, force : BOOLEAN]

InitMain == InitMainWith(OptionArgs, MainFiles)
InitPaths == InitMainWith(PathArgs, {[found |-> TRUE, doc |-> DefaultDoc]})

SpecMain == InitMain /\ [][NextMain]_vars
SpecPaths == InitPaths /\ [][NextMain]_vars
(***************************************************************************)
(* inspect_dataset_annotations(config_path, data_root_path) of             *)
(* datacheck.py.  An orientation is a row of four numbers.                 *)
(***************************************************************************)
LowVariation == 10

Components == 1..4

\* row a sorts before row b (lexicographic, as np.unique sorts rows)
RowLess(a, b) ==
    \E i \in Components : a[i] < b[i] /\ \A j \in 1..(i - 1) : a[j] = b[j]

RECURSIVE InsertRow(_, _)
InsertRow(row, sorted) ==
    IF sorted = <<>> THEN <<row>>
    ELSE IF RowLess(sorted[1], row) THEN <<sorted[1]>> \o InsertRow(row, Tail(sorted))
    ELSE <<row>> \o sorted

RECURSIVE SortRows(_)
SortRows(rows) == IF rows = <<>> THEN <<>> ELSE InsertRow(rows[1], SortRows(Tail(rows)))

\* np.unique(rows, axis=0): the rows sorted, each kept where it differs from
\* the row before it
np_unique(rows) ==
    LET sorted == SortRows(rows)
        keep == {i \in 1..Len(sorted) : i = 1 \/ sorted[i] # sorted[i - 1]}
        RECURSIVE Pick(_)
        Pick(i) == IF i > Len(sorted) THEN <<>>
                   ELSE (IF i \in keep THEN <<sorted[i]>> ELSE <<>>) \o Pick(i + 1)
    IN Pick(1)

\* classify with `<= 10` for `< 10`.
classify_le(u) ==
    IF u = 1 THEN "identical"
    ELSE IF u <= LowVariation THEN "low"
    ELSE "good"

\* The if / elif / else on len(unique_orientations)
classify(u) ==
    IF u = 1 THEN "identical"
    ELSE IF u < LowVariation THEN "low"
    ELSE "good"

RECURSIVE ColSum(_, _)
ColSum(rows, c) == IF rows = <<>> THEN 0 ELSE rows[1][c] + ColSum(Tail(rows), c)

\* np.min, np.max and the sum np.mean divides by len(rows), per component
column_stats(rows) ==
    [Min |-> [c \in Components |-> CHOOSE m \in {rows[i][c] : i \in 1..Len(rows)} :
                                      \A i \in 1..Len(rows) : m <= rows[i][c]],
     Max |-> [c \in Components |-> CHOOSE m \in {rows[i][c] : i \in 1..Len(rows)} :
                                      \A i \in 1..Len(rows) : m >= rows[i][c]],
     Sum |-> [c \in Components |-> ColSum(rows, c)],
     N |-> Len(rows)]

\* Steps 4 and 5, after the loop over the data loader
analyse(rows) ==
    IF rows = <<>>
    THEN [error |-> TRUE, analysed |-> FALSE, unique |-> <<>>, class |-> "none",
          stats |-> <<>>]
    ELSE LET unique_orientations == np_unique(rows)
         IN [error |-> FALSE, analysed |-> TRUE, unique |-> unique_orientations,
             class |-> classify(Len(unique_orientations)),
             stats |-> column_stats(rows)]

\* The k-th orientation the model's datasets hold.
Vec(k) == <<k % 2, (k \div 2) % 2, (k \div 4) % 2, (k \div 8) % 2>>

\* What the loader may yield next: an orientation not seen so far, the first
\* one again or the last one again.
NextOrientations(rows) ==
    {Vec(Cardinality({rows[i] : i \in 1..Len(rows)}))}
    \cup (IF rows = <<>> THEN {} ELSE {rows[1], rows[Len(rows)]})

InitInspect ==
    /\ pc = "inspect_call"
    /\ file \in {[found |-> TRUE, doc |-> DefaultDoc], NoFile}
    /\ args \in {[NoArgs EXCEPT !.data_root = PyStr(r)] : r \in {<<"d">>, <<"/", "d">>}}
    /\ overrides = <<>>
    /\ config = NoConfig
    /\ exists = << >>
    /\ vres = NoResult
    /\ log = <<>>
    /\ exit_code = -1
    /\ orientations = <<>>
    /\ report = NoReport

\* 1. and 2.: open the file (FileNotFoundError is reported), set data_root
OpenConfig ==
    /\ pc = "inspect_call"
    /\ IF ~file.found
       THEN /\ log' = Append(log, "config_not_found")
            /\ pc' = "inspect_return"
            /\ UNCHANGED config
       ELSE /\ config' = SetAttr([ok |-> TRUE, cfg |-> file.doc], DataRootKey, args.data_root)
            /\ pc' = "check_dir"
            /\ UNCHANGED log
    /\ UNCHANGED <<args, file, overrides, exists, vres, exit_code, orientations, report>>

\* os.path.exists(train_data_path)
CheckDir ==
    /\ pc = "check_dir"
    /\ LET train_data_path == join(args.data_root.s, GetAttr(config.cfg, TrainNameKey).s)
       IN \E e \in {f \in [{train_data_path} -> BOOLEAN] : RealFs(f)} :
             /\ exists' = e
             /\ IF e[train_data_path]
                THEN pc' = "create" /\ UNCHANGED log
                ELSE pc' = "inspect_return" /\ log' = Append(log, "data_not_found")
    /\ UNCHANGED <<args, file, overrides, config, vres, exit_code, orientations, report>>

\* 3. SingleCubeDataset(...) returns, or raises and is reported
CreateOk ==
    /\ pc = "create"
    /\ pc' = "iterate"
    /\ UNCHANGED <<args, file, overrides, config, exists, vres, log, exit_code, orientations,
                   report>>

CreateRaises ==
    /\ pc = "create"
    /\ log' = Append(log, "dataset_failed")
    /\ pc' = "inspect_return"
    /\ UNCHANGED <<args, file, overrides, config, exists, vres, exit_code, orientations, report>>

\* 4. one turn of the loop: orientations.append(...)
NextSample ==
    /\ pc = "iterate"
    /\ Len(orientations) < MaxSamples
    /\ \E row \in NextOrientations(orientations) : orientations' = Append(orientations, row)
    /\ UNCHANGED <<pc, args, file, overrides, config, exists, vres, log, exit_code, report>>

\* the loader is exhausted: the empty check, 5. the analysis, the return
Analyse ==
    /\ pc = "iterate"
    /\ report' = analyse(orientations)
    /\ pc' = "inspect_return"
    /\ UNCHANGED <<args, file, overrides, config, exists, vres, log, exit_code, orientations>>

NextInspect ==
    \/ OpenConfig
    \/ CheckDir
    \/ CreateOk
    \/ CreateRaises
    \/ NextSample
    \/ Analyse

SpecInspect == InitInspect /\ [][NextInspect]_vars
(***************************************************************************)
(* Properties.                                                             *)
(***************************************************************************)
Has(seq, x) == \E i \in 1..Len(seq) : seq[i] = x
Count(seq, x) == Cardinality({i \in 1..Len(seq) : seq[i] = x})
\* every x in seq has a y somewhere before it
Before(seq, y, x) ==
    \A i \in 1..Len(seq) : seq[i] = x => \E j \in 1..(i - 1) : seq[j] = y

\* ---- validate_data_paths --------------------------------------------------
ValidateReturned == pc = "validate_return" /\ ~vres.raised

AllThree == LET p == DataPaths(config.cfg) IN <<p.root, p.train, p.val>>
Missing == {i \in 1..3 : ~exists[AllThree[i]]}
FirstMissing == CHOOSE i \in Missing : \A j \in Missing : i <= j

\* C1 as claimed: one call performs all three existence checks and warns about
\* every missing path, also when data_root is missing (no short-circuit).
C1_AllThreeChecked ==
    ValidateReturned =>
        /\ vres.checked = AllThree
        /\ vres.warnings = SelectSeq(AllThree, LAMBDA x : ~exists[x])

\* C1 amended: the checks run in the order data_root, training, validation and
\* stop at the first missing path; that path alone is warned about and the
\* paths after it are neither checked nor reported.
C1_StopsAtFirstMissing ==
    ValidateReturned =>
        IF Missing = {}
        THEN vres.checked = AllThree /\ vres.warnings = <<>>
        ELSE /\ vres.checked = SubSeq(AllThree, 1, FirstMissing)
             /\ vres.warnings = <<AllThree[FirstMissing]>>

\* C1 witness: data_root is missing, and so are the two folders below it; the
\* call looked at data_root only.
C1_Witness ==
    /\ ValidateReturned
    /\ Missing = {1, 2, 3}
    /\ vres.checked = <<AllThree[1]>>
    /\ vres.warnings = <<AllThree[1]>>

\* C9: validate_data_paths returns true iff data_root, the training path and
\* the validation path all exist, and never raises for a missing path.
C9_TrueIffAllExist ==
    pc = "validate_return" =>
        /\ ~vres.raised
        /\ vres.ret <=> (\A i \in 1..3 : exists[AllThree[i]])

\* C9 witness: only the validation path is missing, and the call returned false.
C9_Witness ==
    /\ ValidateReturned
    /\ Missing = {3}
    /\ ~vres.ret

\* ---- load_config ----------------------------------------------------------
\* The nested path the segments of entry i name.
KeyPath(i) == [n \in 1..Len(overrides[i].segs) |-> <<overrides[i].segs[n]>>]
NonNull == {i \in 1..Len(overrides) : overrides[i].value # None}
IsKeyPath(p) == \E i \in 1..Len(overrides) : KeyPath(i) = p
Loaded == pc = "load_return" /\ file.found

\* C2 as claimed: after loading, every non-null key of O holds O[k] at its
\* dotted path and every path of C that is no key of O holds what it held in C.
C2_OverridesApplied ==
    Loaded =>
        /\ config.ok
        /\ \A i \in NonNull :
              KeyPath(i) \in DOMAIN config.cfg /\ config.cfg[KeyPath(i)] = overrides[i].value
        /\ \A p \in DOMAIN file.doc :
              ~IsKeyPath(p) => (p \in DOMAIN config.cfg /\ config.cfg[p] = file.doc[p])

\* No non-null key is a dotted prefix of another non-null key.
IndependentKeys ==
    \A i, j \in NonNull : i # j => ~IsPrefix(KeyPath(i), KeyPath(j))
\* What C holds on the way to a non-null key is a mapping.
MappingsOnTheWay ==
    \A i \in NonNull : \A n \in 1..(Len(KeyPath(i)) - 1) :
        SubSeq(KeyPath(i), 1, n) \in DOMAIN file.doc => file.doc[SubSeq(KeyPath(i), 1, n)] = Map

\* C2 amended: when no non-null key of O is a dotted prefix of another and C
\* holds mappings on the way to every non-null key, loading succeeds, every
\* non-null key holds O[k], and every path of C that is neither a key of O nor
\* nested below a non-null key of O holds what it held in C.
C2_IndependentOverridesApplied ==
    (Loaded /\ IndependentKeys /\ MappingsOnTheWay) =>
        /\ config.ok
        /\ \A i \in NonNull :
              KeyPath(i) \in DOMAIN config.cfg /\ config.cfg[KeyPath(i)] = overrides[i].value
        /\ \A p \in DOMAIN file.doc :
              (~IsKeyPath(p) /\ ~\E i \in NonNull : IsPrefix(KeyPath(i), p))
                  => (p \in DOMAIN config.cfg /\ config.cfg[p] = file.doc[p])

\* C2 witness: a two-segment key whose first segment C lacks was applied (the
\* mapping was created) to a C that holds something else, and a null entry
\* was passed along.
C2_Witness ==
    /\ Loaded /\ IndependentKeys /\ MappingsOnTheWay
    /\ file.doc # << >>
    /\ NonNull # {} /\ NonNull # 1..Len(overrides)
    /\ \E i \in NonNull :
          /\ Len(KeyPath(i)) = 2
          /\ SubSeq(KeyPath(i), 1, 1) \notin DOMAIN file.doc
          /\ config.cfg[SubSeq(KeyPath(i), 1, 1)] = Map
\* ---- main: the override dict ----------------------------------------------
\* The options that become overrides, each with its configuration key.
OptionKeys ==
    [data_root |-> DataRootKey, train_data_name |-> TrainNameKey,
     val_data_name |-> ValNameKey, log_dir |-> LogDirKey, epochs |-> EpochsKey,
     batch_size |-> BatchKey, learning_rate |-> LrKey]

Overridden(key) == \E i \in 1..Len(overrides) : overrides[i].key = key
OverrideOf(key) == overrides[CHOOSE i \in 1..Len(overrides) : overrides[i].key = key].value

OverridesBuilt == pc \notin {"parse"}
\* load_config has returned and main has not touched the configuration yet
JustLoaded == pc = "direct"

\* C3: the override dict holds an option's key exactly when the option was
\* given on the command line (its value is not None), whatever the value; a
\* given value is the loaded configuration's value and an option left unset
\* leaves what the file holds.
C3_GivenOptionsMerged ==
    \A o \in DOMAIN OptionKeys :
        LET key == OptionKeys[o]
            path == Split(key)
        IN /\ OverridesBuilt =>
                /\ Overridden(key) <=> args[o] # None
                /\ Overridden(key) => OverrideOf(key) = args[o]
           /\ JustLoaded =>
                IF args[o] # None
                THEN path \in DOMAIN config.cfg /\ config.cfg[path] = args[o]
                ELSE /\ path \in DOMAIN config.cfg <=> path \in DOMAIN file.doc
                     /\ path \in DOMAIN file.doc => config.cfg[path] = file.doc[path]

\* What holds of the code instead: a key is in the dict exactly when the
\* option's value is truthy (not None, 0, 0.0 or '').
TruthyOptionsMerged ==
    \A o \in DOMAIN OptionKeys :
        LET key == OptionKeys[o]
            path == Split(key)
        IN /\ OverridesBuilt =>
                /\ Overridden(key) <=> Truthy(args[o])
                /\ Overridden(key) => OverrideOf(key) = args[o]
           /\ JustLoaded =>
                IF Truthy(args[o])
                THEN path \in DOMAIN config.cfg /\ config.cfg[path] = args[o]
                ELSE /\ path \in DOMAIN config.cfg <=> path \in DOMAIN file.doc
                     /\ path \in DOMAIN file.doc => config.cfg[path] = file.doc[path]

\* ---- main: --train-data-path and --val-data-path --------------------------
\* The direct-path blocks have run.
PathsResolved == pc \in {"summary", "validate", "decide", "construct", "train", "cleanup"}
DataRoot == GetAttr(config.cfg, DataRootKey).s
TrainName == GetAttr(config.cfg, TrainNameKey).s
ValName == GetAttr(config.cfg, ValNameKey).s

\* C4: given --train-data-path P, data_root is the parent directory of P and
\* the training folder name the leaf of P, whatever --data-root,
\* --train-data-name and the file say; given --val-data-path V alone,
\* data_root is the parent of V and the validation folder name its leaf.
C4_TrainPathOverrides ==
    PathsResolved =>
        /\ args.train_data_path # None =>
              /\ DataRoot = dirname(args.train_data_path.s)
              /\ TrainName = basename(args.train_data_path.s)
        /\ (args.train_data_path = None /\ args.val_data_path # None) =>
              /\ DataRoot = dirname(args.val_data_path.s)
              /\ ValName = basename(args.val_data_path.s)

\* What holds of the code instead: the same for paths that are not ''.
NonEmptyTrainPathOverrides ==
    PathsResolved =>
        /\ Truthy(args.train_data_path) =>
              /\ DataRoot = dirname(args.train_data_path.s)
              /\ TrainName = basename(args.train_data_path.s)
        /\ (~Truthy(args.train_data_path) /\ Truthy(args.val_data_path)) =>
              /\ DataRoot = dirname(args.val_data_path.s)
              /\ ValName = basename(args.val_data_path.s)

Validated == vres.checked # <<>>

\* C5: given both --train-data-path T and --val-data-path V, data_root is the
\* parent directory of T, never that of V, the validation folder name is the
\* leaf of V, and the validation path validate_data_paths checks is
\* parent(T)/leaf(V).
C5_RootFromTrainPathOnly ==
    (PathsResolved /\ args.train_data_path # None /\ args.val_data_path # None) =>
        /\ DataRoot = dirname(args.train_data_path.s)
        /\ ValName = basename(args.val_data_path.s)
        /\ Len(vres.checked) = 3 =>
              vres.checked[3] = join(dirname(args.train_data_path.s),
                                     basename(args.val_data_path.s))

\* What holds of the code instead: the same for a T and a V that are not ''.
NonEmptyRootFromTrainPathOnly ==
    (PathsResolved /\ Truthy(args.train_data_path) /\ Truthy(args.val_data_path)) =>
        /\ DataRoot = dirname(args.train_data_path.s)
        /\ ValName = basename(args.val_data_path.s)
        /\ Len(vres.checked) = 3 =>
              vres.checked[3] = join(dirname(args.train_data_path.s),
                                     basename(args.val_data_path.s))
\* ---- main: what follows the validation --------------------------------------
InTraining == pc \in {"construct", "train", "cleanup", "except"}
Exited == pc = "exit"

\* C6: with --check-data-only, with or without --force, the process ends right
\* after the validation, with status 0 if it passed and 1 if not; no Estimator
\* is constructed and train() is not called.
C6_CheckOnlyExits ==
    args.check_data_only =>
        /\ ~InTraining
        /\ ~Has(log, "Estimator") /\ ~Has(log, "train")
        /\ Validated => pc \in {"decide", "exit"}
        /\ (Validated /\ Exited) =>
              /\ exit_code = (IF vres.ret THEN 0 ELSE 1)
              /\ log = <<"check_complete">>

\* C6 witness: --check-data-only with --force on missing data: status 1.
C6_Witness ==
    /\ args.check_data_only /\ args.force
    /\ Validated /\ ~vres.ret
    /\ Exited /\ exit_code = 1

\* C7: without --check-data-only, a failed validation without --force ends the
\* process with a non-zero status before any Estimator is constructed; a
\* passed validation, or a failed one with --force, goes on to construct the
\* Estimator and call train().  The Estimator is constructed only after the
\* validation has run and passed or --force is set.
C7_TrainingOnlyValidOrForced ==
    /\ (InTraining \/ Has(log, "Estimator") \/ Has(log, "train")) =>
          Validated /\ (vres.ret \/ args.force)
    /\ (~args.check_data_only /\ Validated /\ Exited) =>
          IF ~vres.ret /\ ~args.force
          THEN exit_code # 0 /\ log = <<"validation_failed">>
          ELSE \* the training phase was entered: it ran to its end or raised
               /\ Has(log, "completed") \/ Has(log, "error_report")
               /\ Has(log, "Estimator") => Has(log, "train")

\* C7 witness: --force on missing data: the Estimator was constructed and
\* train() called.
C7_Witness ==
    /\ ~args.check_data_only /\ args.force
    /\ Validated /\ ~vres.ret
    /\ Has(log, "Estimator") /\ Has(log, "train")

\* C8: the training phase constructs the Estimator, calls train(), then
\* done(), done() only after train() has returned; an exception from the
\* construction or from train() is caught once, reported and raised again:
\* done() is not called, the run is not reported as completed and ends in
\* failure.
C8_TrainThenDoneOrReraise ==
    /\ Before(log, "Estimator", "train")
    /\ Before(log, "train_returned", "done")
    /\ Before(log, "done", "completed")
    /\ Count(log, "Estimator") <= 1 /\ Count(log, "train") <= 1 /\ Count(log, "done") <= 1
    /\ Has(log, "completed") => (Exited /\ exit_code = 0 /\ ~Has(log, "error_report"))
    \* an exception is on its way to the handler, or was handled
    /\ pc = "except" => ~Has(log, "error_report")
    /\ Has(log, "error_report") =>
          /\ Count(log, "error_report") = 1
          /\ Before(log, "error_report", "raise") /\ Has(log, "raise")
          /\ ~Has(log, "completed")
          /\ Exited /\ exit_code = 1
    \* it came from the construction or from train()
    /\ ((pc = "except" \/ Has(log, "error_report")) /\ ~Has(log, "train_returned")) =>
          ~Has(log, "done")
    \* no training phase ends silently
    /\ (Exited /\ (Has(log, "Estimator") \/ Has(log, "train"))) =>
          (Has(log, "completed") \/ Has(log, "error_report"))

\* C8 witness: train() raised; the handler reported and raised again.
C8_Witness ==
    /\ Exited /\ exit_code = 1
    /\ log = <<"Estimator", "train", "error_report", "raise", "traceback">>

\* ---- inspect_dataset_annotations --------------------------------------------
\* The loop over the data loader has ended and the function returned.
Traversed == pc = "inspect_return" /\ log = <<>>
Distinct == Cardinality({orientations[i] : i \in 1..Len(orientations)})

\* C10: with no sample collected an error is reported and neither the
\* uniqueness analysis nor the statistics are computed; otherwise the u
\* distinct orientations are classified as identical iff u = 1, as very low
\* variation iff 2 <= u < 10 and as good variation iff u >= 10.
C10_Classification ==
    Traversed =>
        IF orientations = <<>>
        THEN /\ report.error /\ ~report.analysed
             /\ report.unique = <<>> /\ report.stats = <<>> /\ report.class = "none"
        ELSE /\ ~report.error /\ report.analysed
             /\ Len(report.unique) = Distinct
             /\ report.class \in {"identical", "low", "good"}
             /\ report.class = "identical" <=> Distinct = 1
             /\ report.class = "low" <=> (2 <= Distinct /\ Distinct < 10)
             /\ report.class = "good" <=> Distinct >= 10
             /\ report.stats.N = Len(orientations)

\* C10 witness: ten distinct orientations, classified as good variation.
C10_Witness ==
    /\ Traversed
    /\ Distinct = 10
    /\ report.class = "good"

====
